---- MODULE Spec2Model ----
(***************************************************************************)
(* Model of the feedback-driven adaptation loop of the RAG backend:        *)
(*   backend/app/services/rl_optimizer.py  (RLConfig, RLOptimizer)         *)
(*   backend/app/services/feedback.py      (FeedbackService)               *)
(*   backend/app/services/rag.py           (RAGService.process_query)      *)
(*   backend/app/api/routes.py             (initialize_services)           *)
(*                                                                         *)
(* Python floats are modelled as exact rationals <<n, d>> in lowest terms  *)
(* (d > 0); numpy's nan is the pair <<0, 0>>.  Python dicts are functions  *)
(* from strings (records), so a missing key is a string outside DOMAIN.    *)
(***************************************************************************)
EXTENDS Integers, Sequences, FiniteSets, TLC

VARIABLES
    cfg,        \* feedback_service.rl_optimizer.config.config (in memory)
    ragCfg,     \* rag_service.rl_optimizer.config.config (in memory)
    disk,       \* content of data/rl_config.json
    fbfile,     \* content of data/feedback.json
    now,        \* datetime.now(), a logical clock
    result,     \* what the last operation returned or raised
    lastOp,     \* name of the last operation
    pc,         \* SpecConc: position of each submit_feedback call
    loaded,     \* SpecConc: feedback_data local to each submit_feedback call
    optCalls    \* lengths of the batches update_from_feedback was invoked with

vars == <<cfg, ragCfg, disk, fbfile, now, result, lastOp, pc, loaded, optCalls>>

----------------------------------------------------------------------------
(* Bounds of the model *)

MaxRuns == 3
MaxLog == 10
NProcs == 6
MaxUpdates == 4
MaxTicks == 1
MaxStore == 5
MaxLoadedRuns == 2
MaxDoc == 4
MaxResults == 3
MaxShort == 4
MaxRamp == 11
MaxSeq == 7
ScoreSteps == 4
MaxMixed == 3
GridSteps == 10
MaxFailSeq == 5

----------------------------------------------------------------------------
(* Exact rational arithmetic standing for Python float arithmetic.  A list *)
(* comprehension [e for e in s if T(e)] is SelectSeq(s, T), and           *)
(* sum(1 for e in s if T(e)) is its length.                                *)

Abs(x) == IF x < 0 THEN -x ELSE x

RECURSIVE Gcd(_, _)
Gcd(a, b) == IF b = 0 THEN a ELSE Gcd(b, a % b)

Rat(n, d) ==
    LET s == IF d < 0 THEN -1 ELSE 1
        g == Gcd(Abs(n), Abs(d))
    IN  <<(s * n) \div g, (s * d) \div g>>

NaN == <<0, 0>>
IsNaN(a) == a[2] = 0

RAdd(a, b) == IF IsNaN(a) \/ IsNaN(b) THEN NaN
              ELSE Rat(a[1] * b[2] + b[1] * a[2], a[2] * b[2])
RSub(a, b) == IF IsNaN(a) \/ IsNaN(b) THEN NaN
              ELSE Rat(a[1] * b[2] - b[1] * a[2], a[2] * b[2])
RMul(a, b) == IF IsNaN(a) \/ IsNaN(b) THEN NaN
              ELSE Rat(a[1] * b[1], a[2] * b[2])
RDiv(a, b) == IF IsNaN(a) \/ IsNaN(b) \/ b[1] = 0 THEN NaN
              ELSE Rat(a[1] * b[2], a[2] * b[1])
RAbs(a) == <<Abs(a[1]), a[2]>>
\* comparisons with nan are False, as in IEEE arithmetic
RLt(a, b) == ~IsNaN(a) /\ ~IsNaN(b) /\ a[1] * b[2] < b[1] * a[2]
RLe(a, b) == ~IsNaN(a) /\ ~IsNaN(b) /\ a[1] * b[2] <= b[1] * a[2]
RGt(a, b) == RLt(b, a)
RGe(a, b) == RLe(b, a)
\* Python's max(a, b) / min(a, b): the first argument unless the second beats it
PyMax(a, b) == IF RGt(b, a) THEN b ELSE a
PyMin(a, b) == IF RLt(b, a) THEN b ELSE a

Int2Rat(i) == <<i, 1>>

RECURSIVE RSum(_)
RSum(s) == IF s = <<>> THEN <<0, 1>> ELSE RAdd(Head(s), RSum(Tail(s)))

\* np.mean: nan for an empty list
NpMean(s) == IF s = <<>> THEN NaN ELSE RDiv(RSum(s), Int2Rat(Len(s)))

\* dict.get(k, default)
DictGet(d, k, default) == IF k \in DOMAIN d THEN d[k] ELSE default

\* dict.update(updates) / {**d, **updates}
DictUpdate(d, updates) ==
    [k \in (DOMAIN d) \cup (DOMAIN updates) |->
        IF k \in DOMAIN updates THEN updates[k] ELSE d[k]]

\* "x = v; F(x)": v is evaluated once, as a Python assignment does
Bind(v, F(_)) == CHOOSE r \in {F(x) : x \in {v}} : TRUE

----------------------------------------------------------------------------
(* RLConfig: the versioned, persisted configuration *)

DefaultMinSamples == 5
HistoryCap == 50

\* rl_config.json when it does not exist / holds a truncated dump
Absent == [absent |-> TRUE]
Corrupt == [corrupt |-> TRUE]
Readable(d) == d # Absent /\ d # Corrupt

\* self.default_config as built in RLConfig.__init__ at time t
DefaultConfig(t) ==
    [version |-> 1,
     last_updated |-> t,
     web_search |-> [confidence_threshold |-> Rat(7, 10),
                     judge_threshold |-> Int2Rat(5),
                     enabled |-> TRUE],
     confidence_weights |-> [retrieval_eval |-> Rat(1, 2),
                             answer_quality |-> Rat(1, 2)],
     judge_weights |-> [relevance |-> Rat(2, 5),
                        factuality |-> Rat(2, 5),
                        completeness |-> Rat(1, 5)],
     reranking |-> [min_score_threshold |-> Int2Rat(-12), top_k |-> 5],
     learning_rate |-> Rat(1, 10),
     min_samples |-> DefaultMinSamples,
     performance_history |-> <<>>]

\* No config write fails in this call
NoFail == [at |-> 0, mode |-> "open"]

\* The k-th config write of a call fails: open() raises and the file is
\* untouched ("open"), or json.dump raises after open(path, 'w') truncated
\* the file ("dump")
FailModes == {"open", "dump"}

\* The state a call threads through its statements: the in-memory config,
\* the file, the clock, the write that is to fail, the writes made so far,
\* the exception raised (or "none") and the value returned
Ctx(c, d, t, fail) ==
    [cfg |-> c, disk |-> d, now |-> t, fail |-> fail, writes |-> 0,
     raised |-> "none", ret |-> [none |-> TRUE]]

None == [none |-> TRUE]

\* a save that stamps the time and leaves the version alone
SaveConfigKeepVersion(st0) ==
    Bind(st0, LAMBDA st :
    LET c1 == DictUpdate(st.cfg, [last_updated |-> st.now])
        w == st.writes + 1
    IN  IF st.fail.at = w
        THEN [st EXCEPT !.cfg = c1, !.writes = w, !.raised = "IOError",
                        !.disk = IF st.fail.mode = "open" THEN @ ELSE Corrupt]
        ELSE [st EXCEPT !.cfg = c1, !.writes = w, !.disk = c1])

\* RLConfig._save_config(config), config being the in-memory dict itself
SaveConfig(st0) ==
    Bind(st0, LAMBDA st :
    LET c1 == DictUpdate(st.cfg,
                  [last_updated |-> st.now,
                   version |-> DictGet(st.cfg, "version", 1) + 1])
        w == st.writes + 1
    IN  IF st.fail.at = w
        THEN [st EXCEPT !.cfg = c1, !.writes = w, !.raised = "IOError",
                        !.disk = IF st.fail.mode = "open" THEN @ ELSE Corrupt]
        ELSE [st EXCEPT !.cfg = c1, !.writes = w, !.disk = c1])

\* an update that merges into the nested dicts instead of replacing them
UpdateDeepMerge(st0, updates) ==
    Bind(st0, LAMBDA st :
        SaveConfig([st EXCEPT !.cfg =
            DictUpdate(st.cfg,
                [k \in DOMAIN updates |->
                    IF k = "web_search" /\ k \in DOMAIN st.cfg
                    THEN DictUpdate(st.cfg[k], updates[k])
                    ELSE updates[k]])]))

\* RLConfig.update(updates)
Update(st0, updates) ==
    Bind(st0, LAMBDA st :
        SaveConfig([st EXCEPT !.cfg = DictUpdate(st.cfg, updates)]))

\* RLConfig.get('k', default)
Get1(c, k, default) == DictGet(c, k, default)

\* RLConfig.get('k1.k2', default) for a dict-valued c[k1]
Get2(c, k1, k2, default) ==
    IF k1 \in DOMAIN c THEN DictGet(c[k1], k2, default) ELSE default

\* RLConfig._load_config(): the in-memory config and the file after it
LoadConfig(d, t) ==
    IF d = Absent
    THEN LET st == SaveConfig(Ctx(DefaultConfig(t), d, t, NoFail))
         IN  [cfg |-> st.cfg, disk |-> st.disk]
    ELSE IF d = Corrupt
    THEN [cfg |-> DefaultConfig(t), disk |-> d]
    ELSE [cfg |-> DictUpdate(DefaultConfig(t), d), disk |-> d]

----------------------------------------------------------------------------
(* Feedback entries *)

\* f.get('web_search_triggered')
WebTriggered(f) == DictGet(f, "web_search_triggered", FALSE)
NotWebTriggered(f) == ~WebTriggered(f)

HasType(f) == "feedback_type" \in DOMAIN f
LacksType(f) == ~HasType(f)

\* f['feedback_type'] == 'positive' (on entries that have the key)
IsPositive(f) == HasType(f) /\ f.feedback_type = "positive"

\* f.get('confidence', 0)
Confidence(f) == DictGet(f, "confidence", Int2Rat(0))
HighConfidence(f) == RGe(Confidence(f), Rat(7, 10))

\* f['feedback_type'] raises KeyError on some entry of s
KeyErrorIn(s) == \E i \in 1..Len(s) : LacksType(s[i])

\* sum(1 for f in s if f['feedback_type'] == 'positive') / len(s)
PositiveRate(s) == Rat(Len(SelectSeq(s, IsPositive)), Len(s))

----------------------------------------------------------------------------
(* RLOptimizer *)

\* RLOptimizer.should_trigger_web_search(confidence, judge_score)
ShouldTriggerWebSearch(c, confidence, judge_score) ==
    LET conf_threshold == Get2(c, "web_search", "confidence_threshold", Rat(7, 10))
        judge_threshold == Get2(c, "web_search", "judge_threshold", Int2Rat(5))
    IN  RLt(confidence, conf_threshold) \/ RLt(judge_score, judge_threshold)

\* the weighted sum returned as it is
WeightedConfidenceUnclamped(c, retrieval_score, answer_score) ==
    LET weights == Get1(c, "confidence_weights", <<>>)
    IN  RAdd(RMul(DictGet(weights, "retrieval_eval", Rat(1, 2)),
                  RDiv(retrieval_score, Int2Rat(10))),
             RMul(DictGet(weights, "answer_quality", Rat(1, 2)),
                  RDiv(answer_score, Int2Rat(10))))

\* RLOptimizer.calculate_weighted_confidence(retrieval_score, answer_score)
CalculateWeightedConfidence(c, retrieval_score, answer_score) ==
    LET weights == Get1(c, "confidence_weights", <<>>)
        w_retrieval == DictGet(weights, "retrieval_eval", Rat(1, 2))
        w_answer == DictGet(weights, "answer_quality", Rat(1, 2))
        retrieval_norm == RDiv(retrieval_score, Int2Rat(10))
        answer_norm == RDiv(answer_score, Int2Rat(10))
        confidence == RAdd(RMul(w_retrieval, retrieval_norm),
                           RMul(w_answer, answer_norm))
    IN  PyMax(Int2Rat(0), PyMin(Int2Rat(1), confidence))

\* RLOptimizer.calculate_weighted_judge_score(judge_scores)
CalculateWeightedJudgeScore(c, judge_scores) ==
    LET weights == Get1(c, "judge_weights", <<>>)
        weighted_score ==
            RAdd(RAdd(RMul(DictGet(weights, "relevance", Rat(2, 5)),
                           DictGet(judge_scores, "relevance", Int2Rat(5))),
                      RMul(DictGet(weights, "factuality", Rat(2, 5)),
                           DictGet(judge_scores, "factuality", Int2Rat(5)))),
                 RMul(DictGet(weights, "completeness", Rat(1, 5)),
                      DictGet(judge_scores, "completeness", Int2Rat(5))))
    IN  PyMax(Int2Rat(0), PyMin(Int2Rat(10), weighted_score))

\* the lowering without its floor
LowerThresholdUnclamped(current_threshold, delta) ==
    RSub(current_threshold, delta)

\* "new_threshold = max(0.5, current_threshold - delta)"
LowerThreshold(current_threshold, delta) ==
    PyMax(Rat(1, 2), RSub(current_threshold, delta))

\* "new_threshold = min(0.9, current_threshold + delta)"
RaiseThreshold(current_threshold, delta) ==
    PyMin(Rat(9, 10), RAdd(current_threshold, delta))

\* a margin that is reached, not exceeded
ReachesMargin(rate, other) == RGe(rate, RAdd(other, Rat(15, 100)))

\* "web_positive_rate > internal_positive_rate + 0.15" and
\* "internal_positive_rate > web_positive_rate + 0.15"
Outperforms(rate, other) == RGt(rate, RAdd(other, Rat(15, 100)))

\* RLOptimizer._analyze_web_search_performance(feedback_data)
AnalyzeWebSearchPerformance(st0, feedback_data) ==
    Bind(st0, LAMBDA st :
    Bind(SelectSeq(feedback_data, WebTriggered), LAMBDA web_feedback :
    Bind(SelectSeq(feedback_data, NotWebTriggered), LAMBDA internal_feedback :
    IF Len(web_feedback) < 3 \/ Len(internal_feedback) < 3
    THEN [st EXCEPT !.ret = None]
    ELSE IF KeyErrorIn(web_feedback) \/ KeyErrorIn(internal_feedback)
    THEN [st EXCEPT !.raised = "KeyError"]
    ELSE
    Bind(PositiveRate(web_feedback), LAMBDA web_positive_rate :
    Bind(PositiveRate(internal_feedback), LAMBDA internal_positive_rate :
    LET current_threshold ==
            Get2(st.cfg, "web_search", "confidence_threshold", Rat(7, 10))
        learning_rate == Get1(st.cfg, "learning_rate", Rat(1, 10))
        webBetter == Outperforms(web_positive_rate, internal_positive_rate)
        internalBetter == Outperforms(internal_positive_rate, web_positive_rate)
    IN  IF webBetter \/ internalBetter
        THEN
        Bind(IF webBetter
             THEN LowerThreshold(current_threshold,
                      RMul(RSub(web_positive_rate, internal_positive_rate),
                           learning_rate))
             ELSE RaiseThreshold(current_threshold,
                      RMul(RSub(internal_positive_rate, web_positive_rate),
                           learning_rate)),
        LAMBDA new_threshold :
        Bind(Update(st, [web_search |->
                            DictUpdate(st.cfg.web_search,
                                [confidence_threshold |-> new_threshold])]),
        LAMBDA s1 :
            [s1 EXCEPT !.ret =
                [parameter |-> "web_search.confidence_threshold",
                 old_value |-> current_threshold,
                 new_value |-> new_threshold,
                 reason |-> IF webBetter THEN "Web search outperforming"
                            ELSE "Internal KB outperforming",
                 impact |-> IF RLt(new_threshold, current_threshold)
                            THEN "triggered more often"
                            ELSE "triggered less often"]]))
        ELSE [st EXCEPT !.ret = None])))))

\* a shift from answer quality towards retrieval
ShiftedWeightsReversed(current_weights, learning_rate) ==
    [retrieval_eval |->
        PyMin(Rat(7, 10),
              RAdd(DictGet(current_weights, "retrieval_eval", Rat(1, 2)),
                   learning_rate)),
     answer_quality |->
        PyMax(Rat(3, 10),
              RSub(DictGet(current_weights, "answer_quality", Rat(1, 2)),
                   learning_rate))]

\* a shift that raises both weights towards the ceiling
ShiftedWeightsBothRaised(current_weights, learning_rate) ==
    [retrieval_eval |->
        PyMin(Rat(7, 10),
              RAdd(DictGet(current_weights, "retrieval_eval", Rat(1, 2)),
                   learning_rate)),
     answer_quality |->
        PyMin(Rat(7, 10),
              RAdd(DictGet(current_weights, "answer_quality", Rat(1, 2)),
                   learning_rate))]

\* the shift without its floor and ceiling
ShiftedWeightsUnclamped(current_weights, learning_rate) ==
    [retrieval_eval |->
        RSub(DictGet(current_weights, "retrieval_eval", Rat(1, 2)), learning_rate),
     answer_quality |->
        RAdd(DictGet(current_weights, "answer_quality", Rat(1, 2)), learning_rate)]

\* the new_weights of _analyze_confidence_calibration: "max(0.3, retrieval -
\* learning_rate)" and "min(0.7, answer + learning_rate)"
ShiftedWeights(current_weights, learning_rate) ==
    [retrieval_eval |->
        PyMax(Rat(3, 10),
              RSub(DictGet(current_weights, "retrieval_eval", Rat(1, 2)),
                   learning_rate)),
     answer_quality |->
        PyMin(Rat(7, 10),
              RAdd(DictGet(current_weights, "answer_quality", Rat(1, 2)),
                   learning_rate))]

\* RLOptimizer._analyze_confidence_calibration(feedback_data)
AnalyzeConfidenceCalibration(st0, feedback_data) ==
    Bind(st0, LAMBDA st :
    Bind(SelectSeq(feedback_data, HighConfidence), LAMBDA high :
    IF Len(high) < 3
    THEN [st EXCEPT !.ret = None]
    ELSE IF KeyErrorIn(high)
    THEN [st EXCEPT !.raised = "KeyError"]
    ELSE IF RLt(PositiveRate(high), Rat(6, 10))
    THEN
    LET current_weights == Get1(st.cfg, "confidence_weights", <<>>)
        learning_rate == Get1(st.cfg, "learning_rate", Rat(1, 10))
    IN
    Bind(ShiftedWeights(current_weights, learning_rate),
    LAMBDA new_weights :
    Bind(Update(st, [confidence_weights |-> new_weights]), LAMBDA s1 :
        [s1 EXCEPT !.ret =
            [parameter |-> "confidence_weights",
             old_value |-> current_weights,
             new_value |-> new_weights,
             reason |-> "High confidence responses not positive",
             impact |-> "relies more on answer quality"]]))
    ELSE [st EXCEPT !.ret = None]))

Metrics == <<"relevance", "factuality", "completeness">>
MetricSet == {Metrics[i] : i \in 1..Len(Metrics)}

\* f.get('judge_scores', {})
JudgeScores(f) == DictGet(f, "judge_scores", <<>>)

\* the scores of metric m over the entries carrying it, by feedback value
MetricScores(feedback_data, m, positive) ==
    LET Carries(f) == m \in DOMAIN JudgeScores(f) /\ IsPositive(f) = positive
        sel == SelectSeq(feedback_data, Carries)
    IN  [i \in 1..Len(sel) |-> JudgeScores(sel[i])[m]]

\* correlations[m] of _analyze_judge_correlation, for the metrics it is set for
Correlations(feedback_data) ==
    Bind([m \in MetricSet |->
             [pos |-> MetricScores(feedback_data, m, TRUE),
              neg |-> MetricScores(feedback_data, m, FALSE)]],
    LAMBDA scores :
        [m \in {k \in MetricSet : Len(scores[k].pos) + Len(scores[k].neg) >= 10}
            |-> RSub(NpMean(scores[m].pos), NpMean(scores[m].neg))])

\* sum(d[m] for the metrics m of d present), in the order of Metrics
RECURSIVE SumOver(_, _)
SumOver(d, i) ==
    IF i > Len(Metrics) THEN Int2Rat(0)
    ELSE IF Metrics[i] \in DOMAIN d THEN RAdd(d[Metrics[i]], SumOver(d, i + 1))
    ELSE SumOver(d, i + 1)

\* max(d[m] for m in Metrics)
MaxOver(d0) ==
    Bind(d0, LAMBDA d : PyMax(PyMax(d[Metrics[1]], d[Metrics[2]]), d[Metrics[3]]))

\* the blended weights left as they are
NormalizeSkipped(blended) == blended

\* "total = sum(new_weights.values());
\*  new_weights = {k: v/total for k, v in new_weights.items()}"
NormalizeWeights(blended) ==
    Bind(SumOver(blended, 1), LAMBDA total :
        [m \in MetricSet |-> RDiv(blended[m], total)])

\* "new_weights[metric] = current * (1 - learning_rate) + target * learning_rate"
\* with current_weights.get(metric, 1/3) and target_weights.get(metric, 1/3)
BlendWeights(current_weights, target_weights, learning_rate) ==
    [m \in MetricSet |->
        RAdd(RMul(DictGet(current_weights, m, Rat(1, 3)),
                  RSub(Int2Rat(1), learning_rate)),
             RMul(DictGet(target_weights, m, Rat(1, 3)), learning_rate))]

\* a gate that lets every change through
AnyChange(max_change) == RGt(max_change, Int2Rat(0))

\* a gate at 0.001
SignificantAbovePermille(max_change) == RGt(max_change, Rat(1, 1000))

\* "if max_change > 0.05"
Significant(max_change) == RGt(max_change, Rat(5, 100))

\* RLOptimizer._analyze_judge_correlation(feedback_data)
AnalyzeJudgeCorrelation(st0, feedback_data) ==
    Bind(st0, LAMBDA st :
    IF Len(feedback_data) < 10
    THEN [st EXCEPT !.ret = None]
    ELSE IF \E i \in 1..Len(feedback_data) :
               /\ LacksType(feedback_data[i])
               /\ DOMAIN JudgeScores(feedback_data[i]) \cap MetricSet # {}
    THEN [st EXCEPT !.raised = "KeyError"]
    ELSE
    Bind(Correlations(feedback_data), LAMBDA correlations :
    IF DOMAIN correlations = {}
    THEN [st EXCEPT !.ret = None]
    ELSE
    LET current_weights == Get1(st.cfg, "judge_weights", <<>>)
        learning_rate ==
            RMul(Get1(st.cfg, "learning_rate", Rat(1, 10)), Rat(1, 2))
    IN
    Bind(SumOver([m \in DOMAIN correlations |-> RAbs(correlations[m])], 1),
    LAMBDA total_corr :
    IF RGt(total_corr, Int2Rat(0))
    THEN
    Bind(BlendWeights(current_weights,
                      [m \in DOMAIN correlations |->
                          RDiv(RAbs(correlations[m]), total_corr)],
                      learning_rate),
    LAMBDA blended :
    Bind(NormalizeWeights(blended), LAMBDA new_weights :
    LET max_change ==
            MaxOver([m \in MetricSet |->
                RAbs(RSub(new_weights[m],
                          DictGet(current_weights, m, Int2Rat(0))))])
    IN  IF Significant(max_change)
        THEN Bind(Update(st, [judge_weights |-> new_weights]), LAMBDA s1 :
                [s1 EXCEPT !.ret =
                    [parameter |-> "judge_weights",
                     old_value |-> current_weights,
                     new_value |-> new_weights,
                     reason |-> "Adjusting based on user feedback correlation",
                     impact |-> "most important to users"]])
        ELSE [st EXCEPT !.ret = None]))
    ELSE [st EXCEPT !.ret = None])))

\* history[-50:]
LastN(h, n) == IF Len(h) > n THEN SubSeq(h, Len(h) - n + 1, Len(h)) ELSE h

\* the pruning of _record_performance: "if len(history) > 50: history[-50:]"
Prune(history) == IF Len(history) > HistoryCap THEN LastN(history, HistoryCap)
                  ELSE history

\* the performance_entry of _record_performance
PerformanceEntry(feedback_data, t) ==
    [timestamp |-> t,
     total_feedback |-> Len(feedback_data),
     positive_rate |-> PositiveRate(feedback_data),
     avg_confidence |->
        NpMean([i \in 1..Len(feedback_data) |-> Confidence(feedback_data[i])]),
     web_search_usage |->
        Rat(Len(SelectSeq(feedback_data, WebTriggered)), Len(feedback_data))]

\* a snapshot kept in memory until the next save
RecordPerformanceUnsaved(st0, feedback_data) ==
    Bind(st0, LAMBDA st :
    IF feedback_data = <<>>
    THEN [st EXCEPT !.ret = None]
    ELSE IF KeyErrorIn(feedback_data)
    THEN [st EXCEPT !.raised = "KeyError"]
    ELSE [st EXCEPT !.ret = None,
                    !.cfg = DictUpdate(st.cfg,
                        [performance_history |->
                            Prune(Append(Get1(st.cfg, "performance_history", <<>>),
                                         PerformanceEntry(feedback_data, st.now)))])])

\* RLOptimizer._record_performance(feedback_data)
RecordPerformance(st0, feedback_data) ==
    Bind(st0, LAMBDA st :
    IF feedback_data = <<>>
    THEN [st EXCEPT !.ret = None]
    ELSE IF KeyErrorIn(feedback_data)
    THEN [st EXCEPT !.raised = "KeyError"]
    ELSE
    Bind(Append(Get1(st.cfg, "performance_history", <<>>),
                PerformanceEntry(feedback_data, st.now)),
    LAMBDA history :
    Bind(Update(st, [performance_history |-> Prune(history)]), LAMBDA s1 :
        [s1 EXCEPT !.ret = None])))

\* "if r: adjustments['changes'].append(r)" after one analysis
Collect(s, changes) ==
    IF s.raised = "none" /\ s.ret # None THEN Append(changes, s.ret)
    ELSE changes

\* a run that records its snapshot before it declines
UpdateFromFeedbackSnapshotFirst(st0, feedback_data) ==
    Bind(RecordPerformance(st0, feedback_data), LAMBDA s :
        [s EXCEPT !.ret = [status |-> "insufficient_data",
                           current_samples |-> Len(feedback_data)]])

\* RLOptimizer.update_from_feedback(feedback_data).  ret is the dict
\* returned; an exception raised by a statement ends the call there.
UpdateFromFeedback(st0, feedback_data) ==
    Bind(st0, LAMBDA st :
    IF Len(feedback_data) < Get1(st.cfg, "min_samples", DefaultMinSamples)
    THEN [st EXCEPT !.ret = [status |-> "insufficient_data",
                             current_samples |-> Len(feedback_data)]]
    ELSE
    Bind(AnalyzeWebSearchPerformance(st, feedback_data), LAMBDA s1 :
    IF s1.raised # "none" THEN [s1 EXCEPT !.ret = None] ELSE
    Bind(AnalyzeConfidenceCalibration(s1, feedback_data), LAMBDA s2 :
    IF s2.raised # "none" THEN [s2 EXCEPT !.ret = None] ELSE
    Bind(AnalyzeJudgeCorrelation(s2, feedback_data), LAMBDA s3 :
    IF s3.raised # "none" THEN [s3 EXCEPT !.ret = None] ELSE
    Bind(RecordPerformance(s3, feedback_data), LAMBDA s4 :
    IF s4.raised # "none" THEN [s4 EXCEPT !.ret = None] ELSE
        [s4 EXCEPT !.ret =
            [timestamp |-> st.now,
             changes |-> Collect(s3, Collect(s2, Collect(s1, <<>>)))]])))))

----------------------------------------------------------------------------
(* Inputs: feedback entries and batches *)

Scores(r, f, c) ==
    [relevance |-> Int2Rat(r), factuality |-> Int2Rat(f), completeness |-> Int2Rat(c)]

\* entries of the shape test_rl_optimizer feeds to update_from_feedback
WebPos == [feedback_type |-> "positive", web_search_triggered |-> TRUE,
           confidence |-> Rat(1, 2), judge_scores |-> Scores(9, 9, 8)]
WebNeg == [feedback_type |-> "negative", web_search_triggered |-> TRUE,
           confidence |-> Rat(1, 2), judge_scores |-> Scores(5, 4, 5)]
IntPos == [feedback_type |-> "positive", web_search_triggered |-> FALSE,
           confidence |-> Rat(4, 5), judge_scores |-> Scores(7, 7, 6)]
IntNeg == [feedback_type |-> "negative", web_search_triggered |-> FALSE,
           confidence |-> Rat(4, 5), judge_scores |-> Scores(5, 4, 5)]
\* an entry without feedback_type (update_from_feedback takes any List[Dict])
NoType == [web_search_triggered |-> FALSE, confidence |-> Rat(4, 5)]

RECURSIVE Rep(_, _)
Rep(e, n) == IF n = 0 THEN <<>> ELSE <<e>> \o Rep(e, n - 1)

\* a batch holding a WebPos, b WebNeg, c IntPos, d IntNeg and e NoType entries
Batch(a, b, c, d, e) ==
    Rep(WebPos, a) \o Rep(WebNeg, b) \o Rep(IntPos, c) \o Rep(IntNeg, d)
        \o Rep(NoType, e)

\* entry f as submitted for a response the judge returned no scores for
Unjudged(f) == [f EXCEPT !.judge_scores = <<>>]

\* batch with its first n entries unjudged
UnjudgedFirst(batch, n) ==
    [i \in 1..Len(batch) |-> IF i <= n THEN Unjudged(batch[i]) ELSE batch[i]]

\* The batches update_from_feedback is called with.  The analyses only
\* filter, count and average, so one order per multiset of entries is drawn.
Batches ==
    {Batch(3, 0, 0, 3, 0),    \* web search outperforming by 1
     Batch(0, 3, 3, 0, 0),    \* internal KB outperforming by 1
     Batch(3, 3, 0, 3, 0),    \* web search outperforming by 1/2
     Batch(3, 3, 3, 3, 0),    \* equal rates, 12 entries with judge scores
     Batch(3, 1, 3, 2, 0),    \* web search ahead by exactly 0.15
     UnjudgedFirst(Batch(2, 4, 4, 2, 0), 3),  \* 12 entries, 9 with judge scores
     Batch(3, 0, 3, 0, 0),    \* all positive
     Batch(0, 0, 3, 3, 0),    \* no web entries
     Batch(0, 0, 3, 0, 0),    \* fewer than min_samples entries
     Batch(3, 0, 0, 3, 1),    \* an entry without feedback_type, read by (a)
     Batch(0, 0, 3, 3, 1)}    \* an entry without feedback_type, read by (b)

\* which config write of a call fails, if any, and how
Fails == {NoFail, [at |-> 1, mode |-> "open"], [at |-> 2, mode |-> "dump"]}

----------------------------------------------------------------------------
(* SpecOpt: one RLOptimizer, update_from_feedback called on any batches *)

\* a batch no analysis adjusts on
NeutralBatch == Rep(IntPos, DefaultMinSamples)

\* The optimizer after n calls of update_from_feedback(NeutralBatch) on a
\* fresh config file, the k-th at time k: each call makes one write (the
\* snapshot), so the version is 2 + n and the history holds n snapshots.
AfterRuns(n) ==
    LET fresh == LoadConfig(Absent, 0).cfg
        c == IF n = 0 THEN fresh
             ELSE DictUpdate(fresh,
                     [version |-> fresh.version + n,
                      last_updated |-> n,
                      performance_history |->
                         [k \in 1..n |-> PerformanceEntry(NeutralBatch, k)]])
    IN  [cfg |-> c, disk |-> c]

InitAfter(n) ==
        /\ cfg = AfterRuns(n).cfg
        /\ ragCfg = AfterRuns(n).cfg
        /\ disk = AfterRuns(n).disk
        /\ now = n
        /\ fbfile = <<>>
        /\ result = None
        /\ lastOp = "init"
        /\ pc = <<>>
        /\ loaded = <<>>
        /\ optCalls = <<>>

InitOpt == InitAfter(0)

\* optimizer.update_from_feedback(batch), the write fail.at failing; result
\* keeps the outcome of the call and the config it started from
OptimizerRun(batch, fail) ==
    /\ Len(optCalls) < MaxRuns
    /\ \E st \in {UpdateFromFeedback(Ctx(cfg, disk, now + 1, fail), batch)} :
        /\ cfg' = st.cfg
        /\ disk' = st.disk
        /\ now' = now + 1
        /\ result' = [raised |-> st.raised, ret |-> st.ret, writes |-> st.writes,
                      batch |-> batch, before |-> cfg]
        /\ lastOp' = "update_from_feedback"
        /\ optCalls' = Append(optCalls, Len(batch))
        /\ UNCHANGED <<ragCfg, fbfile, pc, loaded>>

NextOpt == \E batch \in Batches, fail \in Fails : OptimizerRun(batch, fail)

SpecOpt == InitOpt /\ [][NextOpt]_vars

\* SpecHist: the same optimizer, its history one snapshot short of the cap
InitHist == InitAfter(HistoryCap - 1)

SpecHist == InitHist /\ [][NextOpt]_vars

\* SpecLoaded: the optimizer started on a config file written or edited
\* before the process starts (_load_config merges whatever the file holds
\* over the defaults)
FileWith(overrides) == DictUpdate(LoadConfig(Absent, 0).disk, overrides)

WebSearchWith(threshold) ==
    [confidence_threshold |-> threshold, judge_threshold |-> Int2Rat(5),
     enabled |-> TRUE]

ConfigFiles ==
    {FileWith(<<>>),
     FileWith([web_search |-> WebSearchWith(Rat(3, 10))]),
     FileWith([web_search |-> WebSearchWith(Rat(3, 2))]),
     FileWith([judge_weights |-> [relevance |-> Rat(1, 2),
                                  factuality |-> Rat(1, 2)]]),
     FileWith([learning_rate |-> Rat(1, 2),
               judge_weights |-> [relevance |-> Rat(1, 5),
                                  factuality |-> Rat(1, 5),
                                  completeness |-> Rat(3, 5)]])}

InitLoaded ==
    \E file \in ConfigFiles :
        /\ cfg = LoadConfig(file, 0).cfg
        /\ ragCfg = LoadConfig(file, 0).cfg
        /\ disk = file
        /\ now = 0
        /\ fbfile = <<>>
        /\ result = None
        /\ lastOp = "init"
        /\ pc = <<>>
        /\ loaded = <<>>
        /\ optCalls = <<>>

NextLoaded ==
    \E batch \in Batches, fail \in Fails :
        Len(optCalls) < MaxLoadedRuns /\ OptimizerRun(batch, fail)

SpecLoaded == InitLoaded /\ [][NextLoaded]_vars

----------------------------------------------------------------------------
(* Spec: the services as routes.py builds and serves them.  The route      *)
(* handlers are "async def" functions that call the services without an    *)
(* await, so each request runs to completion before the next starts.       *)

\* what a caller of submit_feedback supplies
Submissions == {WebPos, IntNeg}

\* the feedback_entry submit_feedback builds at time t
NewEntry(feedback_data, inp, t) ==
    [feedback_id |-> <<Len(feedback_data) + 1, t>>,
     response_id |-> "r",
     timestamp |-> t,
     feedback_type |-> inp.feedback_type,
     confidence |-> inp.confidence,
     judge_scores |-> inp.judge_scores,
     web_search_triggered |-> inp.web_search_triggered]

\* feedback.json holding a truncated dump
CorruptLog == <<Corrupt>>

\* FeedbackService._load_feedback(): [] when the file does not parse (the
\* file exists, __init__ creates it)
LoadFeedback(file) == IF file = CorruptLog THEN <<>> ELSE file

\* how a write of feedback.json ends: it completes, open() raises and the
\* file is untouched, or json.dump raises after open(path, 'w') truncated it
WriteOutcomes == {"none", "open", "dump"}

\* a save that leaves the file as it is
SaveFeedbackSkipped(file, feedback_data, ffail) == file

\* FeedbackService._save_feedback(feedback_data): the file after it
SaveFeedback(file, feedback_data, ffail) ==
    IF ffail = "none" THEN feedback_data
    ELSE IF ffail = "open" THEN file
    ELSE CorruptLog

\* a trigger at every length from min_samples on
OptimizationDueFromMinSamples(c, feedback_data) ==
    Len(feedback_data) >= Get1(c, "min_samples", DefaultMinSamples)

\* "len(feedback_data) >= min_samples and len(feedback_data) % min_samples == 0"
OptimizationDue(c, feedback_data) ==
    LET min_samples == Get1(c, "min_samples", DefaultMinSamples)
    IN  Len(feedback_data) >= min_samples /\ Len(feedback_data) % min_samples = 0

\* a trigger that hands the optimizer only the entries added since its last run
TriggerOptimizationOnNewEntries(st0, feedback_data) ==
    Bind(st0, LAMBDA st :
    Bind(IF OptimizationDue(st.cfg, feedback_data)
         THEN UpdateFromFeedback(st,
                  LastN(feedback_data, Get1(st.cfg, "min_samples", DefaultMinSamples)))
         ELSE st,
    LAMBDA s1 :
        IF s1.raised # "none" THEN [s1 EXCEPT !.ret = None]
        ELSE [s1 EXCEPT !.ret =
                 [status |-> "success",
                  feedback_id |-> feedback_data[Len(feedback_data)].feedback_id]]))

\* lines 98-113 of submit_feedback: the optimizer run when due, and the
\* return value
TriggerOptimization(st0, feedback_data) ==
    Bind(st0, LAMBDA st :
    Bind(IF OptimizationDue(st.cfg, feedback_data)
         THEN UpdateFromFeedback(st, feedback_data) ELSE st,
    LAMBDA s1 :
        IF s1.raised # "none" THEN [s1 EXCEPT !.ret = None]
        ELSE [s1 EXCEPT !.ret =
                 [status |-> "success",
                  feedback_id |-> feedback_data[Len(feedback_data)].feedback_id]]))

\* routes.initialize_services on a fresh data directory: RAGService builds
\* its RLOptimizer (which writes the default file), then FeedbackService
\* builds its own RLOptimizer from that file
Init ==
    \E r \in {LoadConfig(Absent, 0)} :
        /\ ragCfg = r.cfg
        /\ cfg = LoadConfig(r.disk, 0).cfg
        /\ disk = r.disk
        /\ fbfile = <<>>
        /\ now = 0
        /\ result = None
        /\ lastOp = "init"
        /\ pc = <<>>
        /\ loaded = <<>>
        /\ optCalls = <<>>

\* FeedbackService.submit_feedback(...): the write of feedback.json ends as
\* ffail says (an exception of _save_feedback ends the call at line 94), the
\* config write fail.at of the optimizer run fails
SubmitFeedback(inp, fail, ffail) ==
    /\ Len(LoadFeedback(fbfile)) < MaxLog
    /\ \E old \in {LoadFeedback(fbfile)} :
       \E feedback_data \in {Append(old, NewEntry(old, inp, now + 1))} :
       \E st \in {IF ffail = "none"
                  THEN TriggerOptimization(Ctx(cfg, disk, now + 1, fail),
                                           feedback_data)
                  ELSE [Ctx(cfg, disk, now + 1, fail) EXCEPT !.raised = "IOError"]} :
        /\ fbfile' = SaveFeedback(fbfile, feedback_data, ffail)
        /\ cfg' = st.cfg
        /\ disk' = st.disk
        /\ now' = now + 1
        /\ result' = [raised |-> st.raised, ret |-> st.ret]
        /\ lastOp' = "submit_feedback"
        /\ optCalls' = IF ffail = "none" /\ OptimizationDue(cfg, feedback_data)
                       THEN Append(optCalls, Len(feedback_data)) ELSE optCalls
        /\ UNCHANGED <<ragCfg, pc, loaded>>

\* f['feedback_type'] == 'negative'
IsNegative(f) == f.feedback_type = "negative"

\* FeedbackService.get_feedback_stats(): the totals it returns
GetFeedbackStats ==
    /\ \E feedback_data \in {LoadFeedback(fbfile)} :
        result' = [raised |-> "none",
                   ret |-> [total_feedback |-> Len(feedback_data),
                            positive |-> Len(SelectSeq(feedback_data, IsPositive)),
                            negative |-> Len(SelectSeq(feedback_data, IsNegative)),
                            positive_rate |->
                               IF feedback_data = <<>> THEN Int2Rat(0)
                               ELSE PositiveRate(feedback_data)]]
    /\ lastOp' = "get_feedback_stats"
    /\ UNCHANGED <<cfg, ragCfg, disk, fbfile, now, pc, loaded, optCalls>>

Reverse(s) == [i \in 1..Len(s) |-> s[Len(s) + 1 - i]]

\* FeedbackService.get_failed_queries(limit=10): most recent first
GetFailedQueries ==
    /\ \E negative_feedback \in {Reverse(SelectSeq(LoadFeedback(fbfile), IsNegative))} :
        result' = [raised |-> "none",
                   ret |-> [failed |->
                       [i \in 1..(IF Len(negative_feedback) < 10
                                  THEN Len(negative_feedback) ELSE 10) |->
                           [timestamp |-> negative_feedback[i].timestamp,
                            confidence |-> Confidence(negative_feedback[i])]]]]
    /\ lastOp' = "get_failed_queries"
    /\ UNCHANGED <<cfg, ragCfg, disk, fbfile, now, pc, loaded, optCalls>>

\* what the judge returns for a query: the retrieval adequacy score and the
\* answer scores
JudgeOutcomes ==
    {[retrieval |-> Int2Rat(6), answer |-> Scores(9, 9, 8)],
     [retrieval |-> Int2Rat(8), answer |-> Scores(5, 4, 5)]}

\* RAGService.process_query: the web-search decision (lines 175-183) and the
\* confidence (lines 260-264), computed by rag_service.rl_optimizer
ProcessQuery(j) ==
    /\ result' =
         [raised |-> "none",
          judge |-> j,
          ret |-> [should_search |->
                      ShouldTriggerWebSearch(ragCfg,
                          RDiv(j.retrieval, Int2Rat(10)), j.retrieval),
                   confidence |->
                      CalculateWeightedConfidence(ragCfg, j.retrieval,
                          CalculateWeightedJudgeScore(ragCfg, j.answer))]]
    /\ lastOp' = "process_query"
    /\ UNCHANGED <<cfg, ragCfg, disk, fbfile, now, pc, loaded, optCalls>>

Next ==
    \/ \E inp \in Submissions, fail \in Fails : SubmitFeedback(inp, fail, "none")
    \/ GetFeedbackStats
    \/ GetFailedQueries
    \/ \E j \in JudgeOutcomes : ProcessQuery(j)

Spec == Init /\ [][Next]_vars

\* SpecStore: the FeedbackService alone, the writes of feedback.json ending
\* in any of the three ways
NextStore ==
    \/ \E inp \in Submissions, ffail \in WriteOutcomes :
          now < MaxStore /\ SubmitFeedback(inp, NoFail, ffail)
    \/ GetFeedbackStats
    \/ GetFailedQueries

SpecStore == Init /\ [][NextStore]_vars

\* SpecSeq: the services started on a config file that sets min_samples,
\* an empty feedback log, then submit_feedback calls one after the other
MinSamplesValues == {1, 2, 3, 5}

InitSeq ==
    \E m \in MinSamplesValues :
    \E file \in {FileWith([min_samples |-> m])} :
        /\ ragCfg = LoadConfig(file, 0).cfg
        /\ cfg = LoadConfig(file, 0).cfg
        /\ disk = file
        /\ fbfile = <<>>
        /\ now = 0
        /\ result = None
        /\ lastOp = "init"
        /\ pc = <<>>
        /\ loaded = <<>>
        /\ optCalls = <<>>

NextSeq ==
    \E inp \in Submissions :
        now < MaxSeq /\ SubmitFeedback(inp, NoFail, "none")

SpecSeq == InitSeq /\ [][NextSeq]_vars

\* SpecFail: as SpecSeq, a config write of the triggered optimizer run
\* failing or not
NextFail ==
    \E inp \in Submissions, fail \in Fails :
        now < MaxFailSeq /\ SubmitFeedback(inp, fail, "none")

SpecFail == InitSeq /\ [][NextFail]_vars

----------------------------------------------------------------------------
(* SpecConc: NProcs calls of submit_feedback on an empty store, their      *)
(* statements interleaved (FeedbackService takes no lock)                  *)

Procs == 1..NProcs

InitConc ==
    \E r \in {LoadConfig(Absent, 0)} :
        /\ ragCfg = r.cfg
        /\ cfg = r.cfg
        /\ disk = r.disk
        /\ fbfile = <<>>
        /\ now = 0
        /\ result = [p \in Procs |-> None]
        /\ lastOp = "init"
        /\ pc = [p \in Procs |-> "start"]
        /\ loaded = [p \in Procs |-> <<>>]
        /\ optCalls = <<>>

\* line 76: feedback_data = self._load_feedback().  The calls are alike, so
\* they are numbered in the order in which they load.
CLoad(p) ==
    /\ pc[p] = "start"
    /\ \A q \in Procs : q < p => pc[q] # "start"
    /\ loaded' = [loaded EXCEPT ![p] = LoadFeedback(fbfile)]
    /\ pc' = [pc EXCEPT ![p] = "loaded"]
    /\ UNCHANGED <<cfg, ragCfg, disk, fbfile, now, result, lastOp, optCalls>>

\* lines 78-94: build the entry, append it, self._save_feedback(feedback_data)
CSave(p) ==
    /\ pc[p] = "loaded"
    /\ \E feedback_data \in {Append(loaded[p], NewEntry(loaded[p], IntPos, now))} :
        /\ loaded' = [loaded EXCEPT ![p] = feedback_data]
        /\ fbfile' = feedback_data
    /\ pc' = [pc EXCEPT ![p] = "saved"]
    /\ UNCHANGED <<cfg, ragCfg, disk, now, result, lastOp, optCalls>>

\* lines 98-113: the optimizer run when due, and the return
CTrigger(p) ==
    /\ pc[p] = "saved"
    /\ \E st \in {TriggerOptimization(Ctx(cfg, disk, now, NoFail), loaded[p])} :
        /\ cfg' = st.cfg
        /\ disk' = st.disk
        /\ result' = [result EXCEPT ![p] = st.ret]
    /\ optCalls' = IF OptimizationDue(cfg, loaded[p])
                   THEN Append(optCalls, Len(loaded[p])) ELSE optCalls
    /\ pc' = [pc EXCEPT ![p] = "done"]
    /\ UNCHANGED <<ragCfg, fbfile, now, lastOp, loaded>>

\* the clock moves on to the next second
Tick ==
    /\ now < MaxTicks
    /\ now' = now + 1
    /\ UNCHANGED <<cfg, ragCfg, disk, fbfile, result, lastOp, pc, loaded, optCalls>>

NextConc ==
    \/ \E p \in Procs : CLoad(p) \/ CSave(p) \/ CTrigger(p)
    \/ Tick

SpecConc == InitConc /\ [][NextConc]_vars

----------------------------------------------------------------------------
(* SpecCfg: one RLConfig, update() called with the partial configs the     *)
(* optimizer passes it                                                     *)

Partials ==
    {[web_search |-> [confidence_threshold |-> Rat(3, 5),
                      judge_threshold |-> Int2Rat(5), enabled |-> TRUE]],
     [web_search |-> [confidence_threshold |-> Rat(4, 5),
                      judge_threshold |-> Int2Rat(5), enabled |-> TRUE]],
     [confidence_weights |-> [retrieval_eval |-> Rat(2, 5),
                              answer_quality |-> Rat(3, 5)]]}

\* the write of one update() call fails or not
UpdateFails == {NoFail, [at |-> 1, mode |-> "open"], [at |-> 1, mode |-> "dump"]}

InitCfg ==
    \E r \in {LoadConfig(Absent, 0)} :
        /\ cfg = r.cfg
        /\ ragCfg = r.cfg
        /\ disk = r.disk
        /\ fbfile = <<>>
        /\ now = 0
        /\ result = [raised |-> "none", updates |-> <<>>, before |-> 0,
                     diskBefore |-> Absent, prev |-> None]
        /\ lastOp = "init"
        /\ pc = <<>>
        /\ loaded = <<>>
        /\ optCalls = <<>>

\* config.update(updates); result keeps this call, the version and the file
\* it started from, and the call before it
ConfigUpdate(updates, fail) ==
    /\ now < MaxUpdates
    /\ \E st \in {Update(Ctx(cfg, disk, now + 1, fail), updates)} :
        /\ cfg' = st.cfg
        /\ disk' = st.disk
        /\ result' = [raised |-> st.raised, updates |-> updates,
                      before |-> DictGet(cfg, "version", 1),
                      diskBefore |-> disk,
                      prev |-> [raised |-> result.raised,
                                updates |-> result.updates,
                                before |-> result.before]]
    /\ now' = now + 1
    /\ lastOp' = "update"
    /\ UNCHANGED <<ragCfg, fbfile, pc, loaded, optCalls>>

NextCfg == \E updates \in Partials, fail \in UpdateFails : ConfigUpdate(updates, fail)

SpecCfg == InitCfg /\ [][NextCfg]_vars

\* SpecUpd: one RLOptimizer whose config is updated both by callers of
\* config.update, with any dict, and by update_from_feedback
IncompletePartial == [web_search |-> [confidence_threshold |-> Rat(3, 5)]]

\* config.update(updates); result keeps this call
CallerUpdate(updates, fail) ==
    /\ now < MaxMixed
    /\ \E st \in {Update(Ctx(cfg, disk, now + 1, fail), updates)} :
        /\ cfg' = st.cfg
        /\ disk' = st.disk
        /\ result' = [raised |-> st.raised, updates |-> updates]
    /\ now' = now + 1
    /\ lastOp' = "update"
    /\ UNCHANGED <<ragCfg, fbfile, pc, loaded, optCalls>>

NextUpd ==
    \/ \E updates \in Partials \cup {IncompletePartial}, fail \in UpdateFails :
          CallerUpdate(updates, fail)
    \/ \E batch \in Batches :
          now < MaxMixed /\ OptimizerRun(batch, NoFail)

SpecUpd == InitCfg /\ [][NextUpd]_vars

----------------------------------------------------------------------------
(* HybridSearch.reciprocal_rank_fusion and SpecFuse.  A result list is the *)
(* sequence of its doc_ids: the loops unpack "(doc_id, _)" and never read  *)
(* the search score.  The dict rrf_scores is the sequence of its items in  *)
(* insertion order, which is the order sorted() receives them in.          *)

RRF_K == 60

\* a contribution computed from the rank after the document's own
RankContributionNextRank(k, rank) == Rat(1, k + rank + 1)

\* "1 / (k + rank)"
RankContribution(k, rank) == Rat(1, k + rank)

RECURSIVE Accumulate(_, _, _, _)
\* "for rank, (doc_id, _) in enumerate(results, 1):
\*      rrf_scores[doc_id] = rrf_scores.get(doc_id, 0) + (1 / (k + rank))"
\* from position rank of results on
Accumulate(rrf_scores, results, rank, k) ==
    IF rank > Len(results) THEN rrf_scores
    ELSE LET doc_id == results[rank]
             at == {i \in 1..Len(rrf_scores) : rrf_scores[i][1] = doc_id}
             updated ==
                 IF at = {}
                 THEN Append(rrf_scores,
                             <<doc_id, RAdd(Int2Rat(0), RankContribution(k, rank))>>)
                 ELSE [i \in 1..Len(rrf_scores) |->
                         IF i \in at
                         THEN <<doc_id, RAdd(rrf_scores[i][2],
                                             RankContribution(k, rank))>>
                         ELSE rrf_scores[i]]
         IN  Accumulate(updated, results, rank + 1, k)

\* insertion of item ahead of the items of equal score
InsertAheadOfEqual(sorted_items, item) ==
    LET ahead == {i \in 1..Len(sorted_items) : RGt(sorted_items[i][2], item[2])}
        n == Cardinality(ahead)
    IN  SubSeq(sorted_items, 1, n) \o <<item>>
           \o SubSeq(sorted_items, n + 1, Len(sorted_items))

\* insertion of item behind every item whose score is not smaller
InsertDescending(sorted_items, item) ==
    LET ahead == {i \in 1..Len(sorted_items) : RGe(sorted_items[i][2], item[2])}
        n == Cardinality(ahead)
    IN  SubSeq(sorted_items, 1, n) \o <<item>>
           \o SubSeq(sorted_items, n + 1, Len(sorted_items))

RECURSIVE SortedDescending(_)
\* sorted(items, key=lambda x: x[1], reverse=True): stable, so items of equal
\* score keep the order they come in
SortedDescending(items) ==
    IF items = <<>> THEN <<>>
    ELSE InsertDescending(SortedDescending(SubSeq(items, 1, Len(items) - 1)),
                          items[Len(items)])

ReciprocalRankFusion(semantic_results, keyword_results, k) ==
    SortedDescending(
        Accumulate(Accumulate(<<>>, semantic_results, 1, k),
                   keyword_results, 1, k))

\* result lists: up to MaxResults distinct doc_ids out of 1..MaxDoc
ResultLists ==
    {l \in UNION {[1..n -> 1..MaxDoc] : n \in 0..MaxResults} :
        \A i, j \in 1..Len(l) : l[i] = l[j] => i = j}

InitFuse ==
    /\ cfg = DefaultConfig(0)
    /\ ragCfg = DefaultConfig(0)
    /\ disk = Absent
    /\ now = 0
    /\ fbfile = <<>>
    /\ \E a \in ResultLists, b \in ResultLists :
          result = [semantic_results |-> a, keyword_results |-> b]
    /\ lastOp = "init"
    /\ pc = <<>>
    /\ loaded = <<>>
    /\ optCalls = <<>>

\* fused_results = self.reciprocal_rank_fusion(semantic_results, keyword_results)
Fuse ==
    /\ lastOp = "init"
    /\ result' = [semantic_results |-> result.semantic_results,
                  keyword_results |-> result.keyword_results,
                  fused_results |->
                      ReciprocalRankFusion(result.semantic_results,
                                           result.keyword_results, RRF_K)]
    /\ lastOp' = "reciprocal_rank_fusion"
    /\ UNCHANGED <<cfg, ragCfg, disk, fbfile, now, pc, loaded, optCalls>>

NextFuse == Fuse

SpecFuse == InitFuse /\ [][NextFuse]_vars

----------------------------------------------------------------------------
(* RLOptimizer.get_performance_trend and SpecTrend *)

\* history[start:] for a negative start with -start <= len(history)
SliceFrom(history, start) ==
    SubSeq(history, Len(history) + start + 1, Len(history))

\* "recent = history[-5:] if len(history) >= 5 else history[-len(history)//2:]"
\* (-len(history)//2 is (-len(history)) // 2, rounded towards minus infinity)
RecentWindow(history) ==
    IF Len(history) >= 5 THEN LastN(history, 5)
    ELSE SliceFrom(history, (0 - Len(history)) \div 2)

\* "older = history[:5] if len(history) >= 10 else history[:len(history)//2]"
OlderWindow(history) ==
    IF Len(history) >= 10 THEN SubSeq(history, 1, 5)
    ELSE SubSeq(history, 1, Len(history) \div 2)

PositiveRates(window) == [i \in 1..Len(window) |-> window[i].positive_rate]

\* a classification without the dead band
ClassifyBySign(improvement) ==
    IF RGt(improvement, Int2Rat(0)) THEN "improving"
    ELSE IF RGe(improvement, Int2Rat(0)) THEN "stable"
    ELSE "declining"

\* "improving" if improvement > 0.02 else "stable" if improvement > -0.02
\* else "declining"
Classify(improvement) ==
    IF RGt(improvement, Rat(1, 50)) THEN "improving"
    ELSE IF RGt(improvement, Rat(-1, 50)) THEN "stable"
    ELSE "declining"

\* RLOptimizer.get_performance_trend()
GetPerformanceTrend(c) ==
    LET history == Get1(c, "performance_history", <<>>)
    IN  IF Len(history) < 2
        THEN [status |-> "insufficient_data"]
        ELSE LET recent_positive_rate ==
                     NpMean(PositiveRates(RecentWindow(history)))
                 older_positive_rate ==
                     NpMean(PositiveRates(OlderWindow(history)))
                 improvement == RSub(recent_positive_rate, older_positive_rate)
             IN  [status |-> "success",
                  recent_positive_rate |-> recent_positive_rate,
                  older_positive_rate |-> older_positive_rate,
                  improvement |-> improvement,
                  improvement_percent |-> RMul(improvement, Int2Rat(100)),
                  trend |-> Classify(improvement),
                  total_data_points |-> Len(history)]

\* a snapshot written by _record_performance with this positive_rate
Snapshot(rate) ==
    [timestamp |-> 0, total_feedback |-> 200, positive_rate |-> rate,
     avg_confidence |-> Rat(1, 2), web_search_usage |-> Rat(1, 2)]

Rates == {Int2Rat(0), Rat(1, 100), Rat(1, 50), Rat(1, 2), Int2Rat(1)}

\* every history of up to MaxShort snapshots with positive rates in Rates
ShortHistories ==
    UNION {[1..n -> {Snapshot(r) : r \in Rates}] : n \in 0..MaxShort}

RampSteps == {1, 16}

\* histories of 5..MaxRamp snapshots rising, falling or constant in steps of
\* 0.005 or 0.08
Ramps ==
    UNION {{[i \in 1..n |-> Snapshot(Rat(i * step, 200))],
            [i \in 1..n |-> Snapshot(Rat((n + 1 - i) * step, 200))],
            [i \in 1..n |-> Snapshot(Rat(step, 200))]} :
           n \in 5..MaxRamp, step \in RampSteps}

Histories == ShortHistories \cup Ramps

InitTrend ==
    \E history \in Histories :
        /\ cfg = DictUpdate(DefaultConfig(0), [performance_history |-> history])
        /\ ragCfg = DefaultConfig(0)
        /\ disk = DictUpdate(DefaultConfig(0), [performance_history |-> history])
        /\ now = 0
        /\ fbfile = <<>>
        /\ result = None
        /\ lastOp = "init"
        /\ pc = <<>>
        /\ loaded = <<>>
        /\ optCalls = <<>>

\* optimizer.get_performance_trend()
PerformanceTrend ==
    /\ lastOp = "init"
    /\ result' = GetPerformanceTrend(cfg)
    /\ lastOp' = "get_performance_trend"
    /\ UNCHANGED <<cfg, ragCfg, disk, fbfile, now, pc, loaded, optCalls>>

NextTrend == PerformanceTrend

SpecTrend == InitTrend /\ [][NextTrend]_vars

----------------------------------------------------------------------------
(* SpecScore: calculate_weighted_judge_score and                           *)
(* calculate_weighted_confidence applied to any scores, on a config whose  *)
(* weights the optimizer wrote or the config file set                      *)

ConfidenceWeightChoices ==
    {[retrieval_eval |-> Rat(1, 2), answer_quality |-> Rat(1, 2)],
     [retrieval_eval |-> Rat(2, 5), answer_quality |-> Rat(3, 5)],
     [retrieval_eval |-> Rat(3, 10), answer_quality |-> Rat(7, 10)],
     [retrieval_eval |-> Rat(7, 10), answer_quality |-> Rat(7, 10)],
     [answer_quality |-> Rat(7, 10)]}

JudgeWeightChoices ==
    {[relevance |-> Rat(2, 5), factuality |-> Rat(2, 5),
      completeness |-> Rat(1, 5)],
     [relevance |-> Rat(1, 2), factuality |-> Rat(1, 2)],
     [relevance |-> Int2Rat(1), factuality |-> Int2Rat(1),
      completeness |-> Int2Rat(1)]}

\* scores out of 10, in steps of 10/ScoreSteps
ScoreValues == {Rat(10 * i, ScoreSteps) : i \in 0..ScoreSteps}

\* the dicts of the judge: any of the three metrics may be missing
JudgeScoreDicts ==
    UNION {[ms -> {Int2Rat(0), Int2Rat(5), Int2Rat(10)}] : ms \in SUBSET MetricSet}

InitScore ==
    \E cw \in ConfidenceWeightChoices, jw \in JudgeWeightChoices :
    \E file \in {FileWith([confidence_weights |-> cw, judge_weights |-> jw])} :
        /\ cfg = LoadConfig(file, 0).cfg
        /\ ragCfg = LoadConfig(file, 0).cfg
        /\ disk = file
        /\ now = 0
        /\ fbfile = <<>>
        /\ result = None
        /\ lastOp = "init"
        /\ pc = <<>>
        /\ loaded = <<>>
        /\ optCalls = <<>>

\* rl_optimizer.calculate_weighted_judge_score(judge_scores) and
\* rl_optimizer.calculate_weighted_confidence(retrieval_score, answer_score)
CalculateScores(retrieval_score, answer_score, judge_scores) ==
    /\ lastOp = "init"
    /\ result' =
         [retrieval_score |-> retrieval_score,
          answer_score |-> answer_score,
          judge_scores |-> judge_scores,
          weighted_score |-> CalculateWeightedJudgeScore(ragCfg, judge_scores),
          confidence |->
              CalculateWeightedConfidence(ragCfg, retrieval_score, answer_score)]
    /\ lastOp' = "calculate"
    /\ UNCHANGED <<cfg, ragCfg, disk, fbfile, now, pc, loaded, optCalls>>

NextScore ==
    \E retrieval_score \in ScoreValues, answer_score \in ScoreValues,
       judge_scores \in JudgeScoreDicts :
        CalculateScores(retrieval_score, answer_score, judge_scores)

SpecScore == InitScore /\ [][NextScore]_vars

----------------------------------------------------------------------------
(* Properties *)

Threshold(c) == Get2(c, "web_search", "confidence_threshold", Rat(7, 10))
InBand(x) == RLe(Rat(1, 2), x) /\ RLe(x, Rat(9, 10))

\* the last operation was update_from_feedback and it returned its
\* adjustments (it neither raised nor was skipped for insufficient data)
RunReturned ==
    /\ lastOp = "update_from_feedback"
    /\ result.raised = "none"
    /\ "changes" \in DOMAIN result.ret

\* the last operation was update_from_feedback on at least min_samples entries
RunNotSkipped ==
    /\ lastOp = "update_from_feedback"
    /\ Len(result.batch) >= Get1(result.before, "min_samples", DefaultMinSamples)

\* C1 (SpecOpt): from the default configuration, after any sequence of
\* update_from_feedback calls on any batches, web_search.confidence_threshold
\* lies within [0.5, 0.9], in memory and in every readable config file.
C1_ThresholdBounded ==
    /\ InBand(Threshold(cfg))
    /\ Readable(disk) => InBand(Threshold(disk))

\* C1 witness: a run in which web search outperforms at the floor, so the
\* clamp holds the threshold at 0.5.
C1_Witness ==
    /\ RunReturned
    /\ \E i \in 1..Len(result.ret.changes) :
        /\ result.ret.changes[i].reason = "Web search outperforming"
        /\ result.ret.changes[i].old_value = Rat(1, 2)
        /\ result.ret.changes[i].new_value = Rat(1, 2)
    /\ Threshold(cfg) = Rat(1, 2)

AllDone == \A p \in Procs : pc[p] = "done"

\* C2 (SpecConc): NProcs interleaved submit_feedback calls on an empty store
\* leave a log of exactly NProcs entries and return NProcs pairwise distinct
\* feedback_ids.
C2_NoLostSubmission ==
    AllDone =>
        /\ Len(LoadFeedback(fbfile)) = NProcs
        /\ \A p, q \in Procs :
              p # q => result[p].feedback_id # result[q].feedback_id

\* C3 (SpecConc): NProcs interleaved submit_feedback calls on an empty store
\* invoke the optimizer exactly floor(NProcs / min_samples) times, and never
\* twice for the same log length.
C3_OneRunPerBoundary ==
    /\ \A i, k \in 1..Len(optCalls) : i # k => optCalls[i] # optCalls[k]
    /\ AllDone =>
          Len(optCalls) = NProcs \div Get1(cfg, "min_samples", DefaultMinSamples)

IsPrefix(s, t) == Len(s) <= Len(t) /\ SubSeq(t, 1, Len(s)) = s

\* C4 (SpecStore): the feedback log is append-only: every step leaves each
\* persisted entry in the persisted log, unchanged and at its position; a
\* submit_feedback that returns grows the log by exactly one entry, and the
\* reads leave it as it is.
C4_AppendOnly ==
    [][/\ IsPrefix(LoadFeedback(fbfile), LoadFeedback(fbfile'))
       /\ (lastOp' = "submit_feedback" /\ result'.raised = "none")
             => Len(LoadFeedback(fbfile')) = Len(LoadFeedback(fbfile)) + 1
       /\ lastOp' \in {"get_feedback_stats", "get_failed_queries"}
             => fbfile' = fbfile]_vars

\* C5 (Spec): the loop is closed: what process_query decides and scores is
\* what should_trigger_web_search and calculate_weighted_confidence give on
\* the configuration the optimizer last adjusted.
C5_LoopClosed ==
    lastOp = "process_query" =>
        /\ result.ret.should_search =
              ShouldTriggerWebSearch(cfg,
                  RDiv(result.judge.retrieval, Int2Rat(10)), result.judge.retrieval)
        /\ result.ret.confidence =
              CalculateWeightedConfidence(cfg, result.judge.retrieval,
                  CalculateWeightedJudgeScore(cfg, result.judge.answer))

\* C6 as stated (SpecOpt): a run that is not skipped persists exactly once,
\* the version advancing by exactly 1 whatever the number of adjustments.
C6_PersistOnce ==
    RunReturned =>
        /\ cfg.version = result.before.version + 1
        /\ result.writes = 1

\* C6 (SpecOpt): a run that returns persists once per adjustment it makes and
\* once more for the snapshot: it writes the file 1 + len(changes) times, the
\* version advances by 1 + len(changes), and the file holds the in-memory
\* configuration.
C6_PersistPerMutation ==
    RunReturned =>
        /\ result.writes = 1 + Len(result.ret.changes)
        /\ cfg.version = result.before.version + 1 + Len(result.ret.changes)
        /\ disk = cfg

\* C6 witness: a run that made two adjustments and advanced the version by 3.
C6_Witness ==
    /\ RunReturned
    /\ Len(result.ret.changes) = 2
    /\ cfg.version = result.before.version + 3

\* the last operation was an update() whose write completed
Updated == lastOp = "update" /\ result.raised = "none"

\* the last two operations were update() calls with the same argument whose
\* writes completed
UpdatedTwice ==
    /\ Updated
    /\ result.prev.raised = "none"
    /\ result.prev.updates = result.updates

\* C7 as stated (SpecCfg): every successful update advances the version by
\* exactly 1 in memory and on disk; the same update twice advances it by 2
\* and leaves the value; the persisted version is strictly increasing.
C7_AdvanceByOne ==
    /\ Updated =>
          /\ cfg.version = result.before + 1
          /\ Readable(result.diskBefore) =>
                disk.version = result.diskBefore.version + 1
    /\ UpdatedTwice =>
          /\ cfg.version = result.prev.before + 2
          /\ \A k \in DOMAIN result.updates : cfg[k] = result.updates[k]

\* C7 (SpecCfg): every update advances the in-memory version by exactly 1,
\* whether or not its write completes; a successful update persists the
\* in-memory configuration, so the persisted version moves to the in-memory
\* one, strictly above the one it replaces (by more than 1 after a failed
\* write); the same update twice advances the in-memory version by 2 and
\* leaves the value.
C7_VersionAdvance ==
    /\ lastOp = "update" => cfg.version = result.before + 1
    /\ Readable(disk) => disk.version <= cfg.version
    /\ Updated =>
          /\ disk = cfg
          /\ Readable(result.diskBefore) =>
                disk.version > result.diskBefore.version
    /\ UpdatedTwice =>
          /\ cfg.version = result.prev.before + 2
          /\ \A k \in DOMAIN result.updates : cfg[k] = result.updates[k]

\* C7 witness: update({'web_search': X}) twice in a row, both persisted.
C7_Witness ==
    /\ UpdatedTwice
    /\ "web_search" \in DOMAIN result.updates
    /\ cfg.web_search = result.updates.web_search
    /\ disk.version = result.prev.before + 2

History(c) == Get1(c, "performance_history", <<>>)

\* C8 (SpecHist): performance_history holds at most 50 snapshots, and each run
\* that is not skipped appends exactly one snapshot of its batch at the end,
\* the oldest ones being dropped beyond 50.
C8_SnapshotPerRun ==
    /\ Len(History(cfg)) <= HistoryCap
    /\ (RunNotSkipped /\ result.batch # <<>>) =>
          History(cfg) =
              LastN(Append(History(result.before),
                           PerformanceEntry(result.batch, now)), HistoryCap)

\* C9 (SpecOpt): the analyses are failure-isolated: whatever an analysis
\* raises, a run that is not skipped still records its snapshot.
C9_FailureIsolated ==
    RunNotSkipped =>
        /\ History(cfg) # <<>>
        /\ History(cfg)[Len(History(cfg))].timestamp = now
        /\ History(cfg)[Len(History(cfg))].total_feedback = Len(result.batch)

ProbeConfidences == {Rat(k, 20) : k \in 0..20}
ProbeJudgeScores == {Int2Rat(k) : k \in 0..10}

\* the (confidence, judge_score) pairs on which config c triggers web search
TriggerSet(c) ==
    {x \in ProbeConfidences \X ProbeJudgeScores :
        ShouldTriggerWebSearch(c, x[1], x[2])}

\* C10 (SpecOpt): an adjustment made because web search outperforms does not
\* shrink the set of (confidence, judge_score) pairs that trigger web search,
\* and one made because the internal KB outperforms does not grow it.
C10_SearchMoreWhenWebWins ==
    RunReturned =>
        \A i \in 1..Len(result.ret.changes) :
            /\ result.ret.changes[i].reason = "Web search outperforming"
                  => TriggerSet(result.before) \subseteq TriggerSet(cfg)
            /\ result.ret.changes[i].reason = "Internal KB outperforming"
                  => TriggerSet(cfg) \subseteq TriggerSet(result.before)

ConfidenceWeights(c) == Get1(c, "confidence_weights", <<>>)
InWeightBand(x) == RLe(Rat(3, 10), x) /\ RLe(x, Rat(7, 10))
WeightsInBand(c) ==
    /\ InWeightBand(ConfidenceWeights(c).retrieval_eval)
    /\ InWeightBand(ConfidenceWeights(c).answer_quality)

\* C11 (SpecOpt): from the default weights, after any sequence of
\* update_from_feedback calls, confidence_weights.retrieval_eval and
\* confidence_weights.answer_quality each lie within [0.3, 0.7], in memory
\* and in every readable config file.
C11_WeightsBounded ==
    /\ WeightsInBand(cfg)
    /\ Readable(disk) => WeightsInBand(disk)

\* C11 witness: a calibration run at the bounds, where the clamps hold the
\* weights at 0.3 and 0.7.
C11_Witness ==
    /\ RunReturned
    /\ \E i \in 1..Len(result.ret.changes) :
        /\ result.ret.changes[i].parameter = "confidence_weights"
        /\ result.ret.changes[i].old_value.retrieval_eval = Rat(3, 10)
        /\ result.ret.changes[i].new_value.retrieval_eval = Rat(3, 10)
        /\ result.ret.changes[i].new_value.answer_quality = Rat(7, 10)
    /\ ConfidenceWeights(cfg).retrieval_eval = Rat(3, 10)

\* the last run made a calibration adjustment that left the weights as they
\* were: repeated adjustments have come to rest
CalibrationAtRest ==
    /\ RunReturned
    /\ \E i \in 1..Len(result.ret.changes) :
        /\ result.ret.changes[i].parameter = "confidence_weights"
        /\ result.ret.changes[i].old_value = result.ret.changes[i].new_value

\* C12 as stated (SpecOpt): repeated calibration adjustments from the default
\* weights drift to retrieval_eval = answer_quality = 0.7 (sum 1.4): that is
\* where the weights stand once further adjustments no longer move them.
C12_DriftToCeiling ==
    CalibrationAtRest =>
        /\ ConfidenceWeights(cfg).retrieval_eval = Rat(7, 10)
        /\ ConfidenceWeights(cfg).answer_quality = Rat(7, 10)

\* C12 (SpecOpt): the two weights are clamped independently and never
\* renormalized, but calibration only lowers retrieval_eval and only raises
\* answer_quality, both by learning_rate: from the defaults retrieval_eval
\* never exceeds 0.5, answer_quality never falls below 0.5, the sum stays 1,
\* and repeated adjustments come to rest at 0.3 / 0.7, never at 0.7 / 0.7.
C12_NoDriftFromDefaults ==
    /\ RLe(ConfidenceWeights(cfg).retrieval_eval, Rat(1, 2))
    /\ RGe(ConfidenceWeights(cfg).answer_quality, Rat(1, 2))
    /\ RAdd(ConfidenceWeights(cfg).retrieval_eval,
            ConfidenceWeights(cfg).answer_quality) = Int2Rat(1)
    /\ CalibrationAtRest =>
          /\ ConfidenceWeights(cfg).retrieval_eval = Rat(3, 10)
          /\ ConfidenceWeights(cfg).answer_quality = Rat(7, 10)

\* C12 witness: calibration has come to rest, answer_quality at its ceiling.
C12_Witness ==
    /\ CalibrationAtRest
    /\ ConfidenceWeights(cfg).answer_quality = Rat(7, 10)
    /\ ConfidenceWeights(disk) = ConfidenceWeights(cfg)

JudgeWeights(c) == Get1(c, "judge_weights", <<>>)
JudgeWeightSum(c) == SumOver(JudgeWeights(c), 1)

\* the last run returned a judge-weight adjustment
JudgeWeightsAdjusted ==
    /\ RunReturned
    /\ \E i \in 1..Len(result.ret.changes) :
        result.ret.changes[i].parameter = "judge_weights"

\* C13 (SpecLoaded): whenever analysis (c) applies an adjustment, the three
\* judge weights it persists sum to 1; the default weights sum to 1 and a run
\* leaves a sum of 1 at 1, so from the defaults the sum is 1 after any
\* sequence of runs.  (Sums are those of the model's exact arithmetic; the
\* doubles of the code add the rounding error of three divisions.)
C13_JudgeWeightsSumToOne ==
    /\ JudgeWeightsAdjusted =>
          /\ DOMAIN JudgeWeights(cfg) = MetricSet
          /\ JudgeWeightSum(cfg) = Int2Rat(1)
          /\ JudgeWeights(disk) = JudgeWeights(cfg)
    /\ JudgeWeightSum(DefaultConfig(0)) = Int2Rat(1)
    /\ (lastOp = "update_from_feedback"
          /\ JudgeWeightSum(result.before) = Int2Rat(1))
          => JudgeWeightSum(cfg) = Int2Rat(1)

\* C13 witness: analysis (c) applied an adjustment to weights that did not
\* sum to 1 over the three metrics before.
C13_Witness ==
    /\ JudgeWeightsAdjusted
    /\ DOMAIN JudgeWeights(result.before) # MetricSet
    /\ JudgeWeightSum(cfg) = Int2Rat(1)

Fused == lastOp = "reciprocal_rank_fusion"

\* the score the fused result gives doc_id
FusedScore(doc_id) ==
    LET i == CHOOSE i \in 1..Len(result.fused_results) :
                 result.fused_results[i][1] = doc_id
    IN  result.fused_results[i][2]

\* 1/(k + the 1-based rank of doc_id in results), 0 if it is not in results
ListScore(results, doc_id) ==
    IF \E r \in 1..Len(results) : results[r] = doc_id
    THEN Rat(1, RRF_K + (CHOOSE r \in 1..Len(results) : results[r] = doc_id))
    ELSE Int2Rat(0)

ExampleFused ==
    /\ Fused
    /\ result.semantic_results = <<1, 2, 3>>
    /\ result.keyword_results = <<3, 1, 4>>

\* C14 as stated: in the example score(4) = 1/64.
C14_ExampleAsStated ==
    ExampleFused =>
        /\ FusedScore(1) = RAdd(Rat(1, 61), Rat(1, 62))
        /\ FusedScore(3) = RAdd(Rat(1, 63), Rat(1, 61))
        /\ FusedScore(2) = Rat(1, 62)
        /\ FusedScore(4) = Rat(1, 64)

\* C14 (SpecFuse): each doc's fused score is the sum over the two lists of
\* 1/(k + its 1-based rank in that list), 0 for a list it is absent from; for
\* A = [1,2,3], B = [3,1,4], k = 60 that is score(1) = 1/61 + 1/62,
\* score(3) = 1/63 + 1/61, score(2) = 1/62 and score(4) = 1/63 (doc 4 is at
\* rank 3 of B).
C14_RankSums ==
    /\ Fused =>
          \A i \in 1..Len(result.fused_results) :
              result.fused_results[i][2] =
                  RAdd(ListScore(result.semantic_results,
                                 result.fused_results[i][1]),
                       ListScore(result.keyword_results,
                                 result.fused_results[i][1]))
    /\ ExampleFused =>
          /\ FusedScore(1) = RAdd(Rat(1, 61), Rat(1, 62))
          /\ FusedScore(3) = RAdd(Rat(1, 63), Rat(1, 61))
          /\ FusedScore(2) = Rat(1, 62)
          /\ FusedScore(4) = Rat(1, 63)

\* C14 witness: the example has been fused and doc 4 scores 1/63.
C14_Witness == ExampleFused /\ FusedScore(4) = Rat(1, 63)

TrendReturned == lastOp = "get_performance_trend" /\ result.status = "success"

\* the positive rates of the snapshots, oldest first
RateSeq == PositiveRates(Get1(cfg, "performance_history", <<>>))

StrictlyIncreasing(rs) == \A i \in 1..(Len(rs) - 1) : RLt(rs[i], rs[i + 1])
StrictlyDecreasing(rs) == \A i \in 1..(Len(rs) - 1) : RGt(rs[i], rs[i + 1])
AllEqual(rs) == \A i \in 1..(Len(rs) - 1) : rs[i] = rs[i + 1]

\* C15 as stated: whatever the increments, a strictly increasing sequence is
\* "improving", a strictly decreasing one "declining", a flat one "stable".
C15_MonotoneClassified ==
    TrendReturned =>
        /\ StrictlyIncreasing(RateSeq) => result.trend = "improving"
        /\ StrictlyDecreasing(RateSeq) => result.trend = "declining"
        /\ AllEqual(RateSeq) => result.trend = "stable"

\* C15 (SpecTrend): a strictly increasing sequence has a positive improvement
\* and is "improving" if that exceeds 0.02 and "stable" otherwise, never
\* "declining"; a strictly decreasing one has a negative improvement and is
\* "declining" if that is -0.02 or less and "stable" otherwise, never
\* "improving"; an all-equal one has improvement 0 and is "stable".
C15_MonotoneWithinBand ==
    TrendReturned =>
        /\ StrictlyIncreasing(RateSeq) =>
              /\ RGt(result.improvement, Int2Rat(0))
              /\ result.trend =
                    (IF RGt(result.improvement, Rat(1, 50))
                     THEN "improving" ELSE "stable")
        /\ StrictlyDecreasing(RateSeq) =>
              /\ RLt(result.improvement, Int2Rat(0))
              /\ result.trend =
                    (IF RLe(result.improvement, Rat(-1, 50))
                     THEN "declining" ELSE "stable")
        /\ AllEqual(RateSeq) =>
              /\ result.improvement = Int2Rat(0)
              /\ result.trend = "stable"

\* C15 witness: a strictly increasing history of more than two snapshots
\* classified "stable".
C15_Witness ==
    /\ TrendReturned
    /\ Len(RateSeq) > 2
    /\ StrictlyIncreasing(RateSeq)
    /\ result.trend = "stable"

UpdateFailed == lastOp = "update" /\ result.raised = "IOError"

\* C16 (SpecCfg): when the write of an update fails, the config file is what
\* it was before the call, so a restart (_load_config) loads the last
\* persisted state; the in-memory config holds the attempted update.
C16_FailedWriteKeepsDisk ==
    UpdateFailed =>
        /\ disk = result.diskBefore
        /\ LoadConfig(disk, now).cfg = LoadConfig(result.diskBefore, now).cfg
        /\ \A k \in DOMAIN result.updates : cfg[k] = result.updates[k]

MinSamples == Get1(cfg, "min_samples", DefaultMinSamples)

\* C17 (SpecSeq): in a sequential run of submit_feedback calls on an empty
\* store with min_samples = m, the optimizer has been invoked exactly at the
\* log lengths m, 2m, 3m, ... reached so far, floor(N / m) times after N
\* submissions, and each of these runs has recorded its snapshot.
C17_TriggerAtMultiples ==
    /\ Len(fbfile) = now
    /\ optCalls = [i \in 1..(Len(fbfile) \div MinSamples) |-> i * MinSamples]
    /\ Len(History(cfg)) = Len(fbfile) \div MinSamples

\* C17 witness: with min_samples = 3, seven submissions and runs at 3 and 6.
C17_Witness ==
    /\ MinSamples = 3
    /\ Len(fbfile) = 7
    /\ optCalls = <<3, 6>>

Calculated == lastOp = "calculate"

\* judge_scores with 5 for each missing metric
WithMidpoints(judge_scores) ==
    [m \in MetricSet |-> DictGet(judge_scores, m, Int2Rat(5))]

\* C18 (SpecScore): for scores in [0,10] and any of the weights, including
\* confidence weights that sum to more than 1, calculate_weighted_confidence
\* returns a value in [0,1]; calculate_weighted_judge_score returns a value
\* in [0,10], the one it returns when each missing metric is given as 5.
C18_ScoresBounded ==
    Calculated =>
        /\ RLe(Int2Rat(0), result.confidence)
        /\ RLe(result.confidence, Int2Rat(1))
        /\ RLe(Int2Rat(0), result.weighted_score)
        /\ RLe(result.weighted_score, Int2Rat(10))
        /\ result.weighted_score =
              CalculateWeightedJudgeScore(ragCfg, WithMidpoints(result.judge_scores))

\* C18 witness: confidence weights 0.7/0.7, a weighted sum above 1 returned
\* as 1, and a judge dict without "completeness" scored as if it held 5.
C18_Witness ==
    /\ Calculated
    /\ ConfidenceWeights(ragCfg) =
          [retrieval_eval |-> Rat(7, 10), answer_quality |-> Rat(7, 10)]
    /\ RGt(WeightedConfidenceUnclamped(ragCfg, result.retrieval_score,
                                       result.answer_score), Int2Rat(1))
    /\ result.confidence = Int2Rat(1)
    /\ DOMAIN result.judge_scores = {"relevance", "factuality"}
    /\ JudgeWeights(ragCfg) = JudgeWeights(DefaultConfig(0))
    /\ result.judge_scores.relevance = Int2Rat(10)
    /\ result.judge_scores.factuality = Int2Rat(10)
    /\ result.weighted_score = Int2Rat(9)

\* C19 (SpecLoaded): whenever analysis (a) applies an adjustment, from any
\* threshold the config file can hold, the value it returns and leaves in
\* the config is within [0.5, 0.9].
C19_AppliedValueInBand ==
    RunReturned =>
        \A i \in 1..Len(result.ret.changes) :
            result.ret.changes[i].parameter = "web_search.confidence_threshold"
                => /\ InBand(result.ret.changes[i].new_value)
                   /\ InBand(Threshold(cfg))

ThresholdChanges ==
    {i \in 1..Len(result.ret.changes) :
        result.ret.changes[i].parameter = "web_search.confidence_threshold"}

WebPartition == SelectSeq(result.batch, WebTriggered)
InternalPartition == SelectSeq(result.batch, NotWebTriggered)

\* both partitions hold 3 entries or more and their positive rates differ by
\* at most 0.15
WithinMargin ==
    /\ Len(WebPartition) >= 3
    /\ Len(InternalPartition) >= 3
    /\ RLe(RAbs(RSub(PositiveRate(WebPartition),
                     PositiveRate(InternalPartition))), Rat(15, 100))

\* C20 (SpecOpt): when the web-triggered or the internal partition of the
\* batch has fewer than 3 entries, or their positive rates differ by at most
\* 0.15, analysis (a) returns no adjustment, leaves web_search as it is and
\* writes nothing: the writes and version advances of the run are those of
\* the other adjustments and of the snapshot.
C20_NoChangeWithinMargin ==
    (/\ RunReturned
     /\ \/ Len(WebPartition) < 3
        \/ Len(InternalPartition) < 3
        \/ WithinMargin)
    => /\ ThresholdChanges = {}
       /\ cfg.web_search = result.before.web_search
       /\ result.writes = Len(result.ret.changes) + 1
       /\ cfg.version = result.before.version + result.writes

\* C20 witness: a returned run on partitions of 4 and 5 entries whose rates,
\* 0.75 and 0.6, differ by exactly 0.15.
C20_Witness ==
    /\ RunReturned
    /\ WithinMargin
    /\ RSub(PositiveRate(WebPartition), PositiveRate(InternalPartition))
          = Rat(15, 100)
    /\ ThresholdChanges = {}
    /\ cfg.web_search = result.before.web_search

Stamps == {"version", "last_updated"}

\* update(partial) replaced each top-level key of partial and left the others
ShallowReplaced ==
    /\ \A k \in DOMAIN result'.updates : cfg'[k] = result'.updates[k]
    /\ DOMAIN cfg' = DOMAIN cfg \cup DOMAIN result'.updates \cup Stamps
    /\ \A k \in DOMAIN cfg \ (DOMAIN result'.updates \cup Stamps) :
          cfg'[k] = cfg[k]

\* the run left every field of web_search but confidence_threshold as it was
OnlyThresholdTouched ==
    /\ DOMAIN cfg'.web_search = DOMAIN cfg.web_search \cup {"confidence_threshold"}
    /\ \A k \in DOMAIN cfg.web_search \ {"confidence_threshold"} :
          cfg'.web_search[k] = cfg.web_search[k]

\* C21 (SpecUpd): update(partial) is a shallow replace: every top-level key
\* of partial ends up holding exactly the supplied value, every other key
\* but version and last_updated keeps its value; and a run of the optimizer
\* leaves web_search.judge_threshold and web_search.enabled as they were.
C21_ShallowReplace ==
    [][/\ lastOp' = "update" => ShallowReplaced
       /\ lastOp' = "update_from_feedback" => OnlyThresholdTouched]_vars

\* C21 witness: update({'web_search': {'confidence_threshold': 0.6}}) has
\* dropped judge_threshold and enabled.
C21_Witness ==
    /\ lastOp = "update"
    /\ result.updates = IncompletePartial
    /\ cfg.web_search = IncompletePartial.web_search
    /\ "judge_threshold" \notin DOMAIN cfg.web_search

\* the run that ends in the primed state got fewer than min_samples entries
TooFewEntries ==
    /\ lastOp' = "update_from_feedback"
    /\ Len(result'.batch) < Get1(cfg, "min_samples", DefaultMinSamples)

\* C22 (SpecOpt): update_from_feedback on fewer than min_samples entries
\* returns status "insufficient_data" and leaves the configuration as it
\* was, in memory and on disk: no write is attempted, so no threshold,
\* weight, snapshot or version changes.
C22_InsufficientDataNoChange ==
    [][TooFewEntries =>
          /\ result'.raised = "none"
          /\ result'.ret.status = "insufficient_data"
          /\ result'.ret.current_samples = Len(result'.batch)
          /\ result'.writes = 0
          /\ cfg' = cfg
          /\ disk' = disk]_vars

\* C22 witness: a run on 3 entries that declined, after an earlier run had
\* moved the threshold and recorded a snapshot.
C22_Witness ==
    /\ lastOp = "update_from_feedback"
    /\ Len(result.batch) = 3
    /\ result.ret = [status |-> "insufficient_data", current_samples |-> 3]
    /\ cfg = result.before
    /\ Threshold(cfg) # Rat(7, 10)
    /\ Len(History(cfg)) = 1

\* the entries of the last batch that carry a score for metric m
Carrying(m) ==
    LET Carries(f) == m \in DOMAIN JudgeScores(f)
    IN  SelectSeq(result.batch, Carries)

\* max over the metrics of |new weight - current weight|, a metric the
\* current weights lack counting as 0
MaxWeightChange ==
    MaxOver([m \in MetricSet |->
                RAbs(RSub(DictGet(JudgeWeights(cfg), m, Int2Rat(0)),
                          DictGet(JudgeWeights(result.before), m, Int2Rat(0))))])

\* C23 (SpecLoaded): a run changes judge_weights only if its batch has at
\* least 10 entries carrying judge scores and the largest per-metric
\* difference between the new, renormalized weight and the current one
\* exceeds 0.05; a returned run that reports no judge-weight adjustment has
\* left judge_weights as they were and made no write for them.
C23_JudgeWeightsGate ==
    lastOp = "update_from_feedback" =>
        /\ JudgeWeights(cfg) # JudgeWeights(result.before) =>
              /\ \E m \in MetricSet : Len(Carrying(m)) >= 10
              /\ RGt(MaxWeightChange, Rat(5, 100))
        /\ (RunReturned /\ ~JudgeWeightsAdjusted) =>
              /\ JudgeWeights(cfg) = JudgeWeights(result.before)
              /\ result.writes = Len(result.ret.changes) + 1
              /\ cfg.version = result.before.version + result.writes

\* C23 witness: a returned run on 12 judged entries that moved a judge weight
\* by more than 0.05.
C23_Witness ==
    /\ JudgeWeightsAdjusted
    /\ \A m \in MetricSet : Len(Carrying(m)) = 12
    /\ JudgeWeights(cfg) # JudgeWeights(result.before)
    /\ DOMAIN JudgeWeights(result.before) = MetricSet
    /\ RGt(MaxWeightChange, Rat(5, 100))

FusedDocs == [i \in 1..Len(result.fused_results) |-> result.fused_results[i][1]]

\* the position at which doc_id is first met, the semantic list being
\* scanned fully before the keyword list
FirstSeen(doc_id) ==
    LET both == result.semantic_results \o result.keyword_results
    IN  CHOOSE i \in 1..Len(both) :
            /\ both[i] = doc_id
            /\ \A j \in 1..(i - 1) : both[j] # doc_id

\* C24 (SpecFuse): the fused result holds every doc_id of the union of the
\* two lists exactly once, in order of non-increasing score, docs of equal
\* score in first-encountered order; two empty lists give an empty result,
\* and A = [1,2,3], B = [3,1,4] gives the order 1,3,2,4.
C24_FusedOrder ==
    Fused =>
        /\ {FusedDocs[i] : i \in 1..Len(FusedDocs)} =
              {result.semantic_results[i] : i \in 1..Len(result.semantic_results)}
                 \cup
              {result.keyword_results[i] : i \in 1..Len(result.keyword_results)}
        /\ \A i, j \in 1..Len(FusedDocs) : FusedDocs[i] = FusedDocs[j] => i = j
        /\ \A i \in 1..(Len(FusedDocs) - 1) :
              /\ RGe(result.fused_results[i][2], result.fused_results[i + 1][2])
              /\ result.fused_results[i][2] = result.fused_results[i + 1][2]
                    => FirstSeen(FusedDocs[i]) < FirstSeen(FusedDocs[i + 1])
        /\ (result.semantic_results = <<>> /\ result.keyword_results = <<>>)
              => result.fused_results = <<>>
        /\ ExampleFused => FusedDocs = <<1, 3, 2, 4>>

\* C24 witness: A = [1,2], B = [3]: docs 1 and 3 tie at 1/61 and come out in
\* first-encountered order, ahead of doc 2.
C24_Witness ==
    /\ Fused
    /\ result.semantic_results = <<1, 2>>
    /\ result.keyword_results = <<3>>
    /\ result.fused_results[1][2] = result.fused_results[2][2]
    /\ FusedDocs = <<1, 3, 2>>

TrendHistory == Get1(cfg, "performance_history", <<>>)

\* the common window size of the claim: 5 from 10 snapshots on, half the
\* history (rounded down) below
WindowSize == IF Len(TrendHistory) >= 10 THEN 5 ELSE Len(TrendHistory) \div 2

\* C25 (SpecTrend): for n >= 2 snapshots the two means compared are those of
\* the last c and of the first c snapshots, c = 5 for n >= 10 and
\* c = floor(n/2) for n < 10; for n < 2 the status is "insufficient_data".
C25_SameSizeWindows ==
    lastOp = "get_performance_trend" =>
        IF Len(TrendHistory) < 2
        THEN result.status = "insufficient_data"
        ELSE /\ result.status = "success"
             /\ result.recent_positive_rate =
                   NpMean(PositiveRates(LastN(TrendHistory, WindowSize)))
             /\ result.older_positive_rate =
                   NpMean(PositiveRates(SubSeq(TrendHistory, 1, WindowSize)))

\* C26 (SpecTrend): the trend is "improving" exactly when improvement > 0.02,
\* "declining" exactly when improvement < -0.02, and "stable" otherwise,
\* improvement = mean(recent) - mean(older) equal to 0.02 or to -0.02
\* included.
C26_DeadBandClosed ==
    TrendReturned =>
        /\ result.improvement =
              RSub(result.recent_positive_rate, result.older_positive_rate)
        /\ result.trend =
              (IF RGt(result.improvement, Rat(1, 50)) THEN "improving"
               ELSE IF RLt(result.improvement, Rat(-1, 50)) THEN "declining"
               ELSE "stable")

\* target weights |correlation| / total over the metrics that have a
\* correlation, in steps of 1/GridSteps
TargetGrid ==
    {t \in UNION {[ms -> {Rat(k, GridSteps) : k \in 0..GridSteps}] :
                     ms \in SUBSET MetricSet \ {{}}} :
        SumOver(t, 1) = Int2Rat(1)}

\* C27 (SpecOpt): from the default configuration no sequence of
\* update_from_feedback calls changes judge_weights or learning_rate, in
\* memory or in a readable config file; no run reports a judge-weight
\* adjustment: blending the default weights with any target weights at
\* learning_rate * 0.5 = 0.05 moves no weight by more than 0.05.
C27_JudgeWeightsFixedFromDefaults ==
    /\ lastOp = "init" =>
          \A t \in TargetGrid :
              RLe(MaxOver([m \in MetricSet |->
                     RAbs(RSub(NormalizeWeights(
                                   BlendWeights(JudgeWeights(cfg), t,
                                                Rat(1, 20)))[m],
                               JudgeWeights(cfg)[m]))]),
                  Rat(5, 100))
    /\ JudgeWeights(cfg) = JudgeWeights(DefaultConfig(0))
    /\ Get1(cfg, "learning_rate", Rat(1, 10)) = Rat(1, 10)
    /\ Readable(disk) =>
          /\ JudgeWeights(disk) = JudgeWeights(DefaultConfig(0))
          /\ Get1(disk, "learning_rate", Rat(1, 10)) = Rat(1, 10)
    /\ ~JudgeWeightsAdjusted

\* C27 witness: a returned run on 12 judged entries whose correlations are
\* defined and positive for all three metrics (targets 3/9, 4/9, 2/9), so
\* the blend was computed, and the weights are the default ones.
C27_Witness ==
    /\ RunReturned
    /\ \A m \in MetricSet : Len(Carrying(m)) = 12
    /\ DOMAIN Correlations(result.batch) = MetricSet
    /\ \A m \in MetricSet : RGt(Correlations(result.batch)[m], Int2Rat(0))
    /\ JudgeWeights(cfg) = JudgeWeights(DefaultConfig(0))

AtFloorAndCeiling(c) ==
    ConfidenceWeights(c) =
        [retrieval_eval |-> Rat(3, 10), answer_quality |-> Rat(7, 10)]

\* C28 (SpecOpt): from the default configuration no run increases
\* confidence_weights.retrieval_eval or decreases
\* confidence_weights.answer_quality; once they stand at 0.3 / 0.7 every run
\* leaves them there, and a run whose calibration fires then still reports
\* an adjustment (old value = new value) and writes the config, advancing
\* the version.
C28_OneDirectional ==
    lastOp = "update_from_feedback" =>
        /\ RLe(ConfidenceWeights(cfg).retrieval_eval,
               ConfidenceWeights(result.before).retrieval_eval)
        /\ RGe(ConfidenceWeights(cfg).answer_quality,
               ConfidenceWeights(result.before).answer_quality)
        /\ AtFloorAndCeiling(result.before) => AtFloorAndCeiling(cfg)
        /\ CalibrationAtRest =>
              /\ AtFloorAndCeiling(result.before)
              /\ result.writes >= 2
              /\ cfg.version = result.before.version + result.writes

\* C28 witness: the weights stood at 0.3 / 0.7 before the run, its
\* calibration fired on a batch whose high-confidence entries are all
\* negative, reported old value = new value and advanced the version.
C28_Witness ==
    /\ CalibrationAtRest
    /\ AtFloorAndCeiling(result.before)
    /\ AtFloorAndCeiling(cfg)
    /\ Len(SelectSeq(result.batch, HighConfidence)) >= 3
    /\ cfg.version > result.before.version + 1

\* C29 (SpecSeq): the k-th run triggered by submit_feedback is handed the
\* whole log: its snapshot has total_feedback = k * min_samples, the log
\* length at that moment, and its rates are those of all entries logged so
\* far, the ones analysed by earlier runs included.
C29_WholeLogAnalysed ==
    \A k \in 1..Len(History(cfg)) :
        /\ optCalls[k] = k * MinSamples
        /\ History(cfg)[k].total_feedback = k * MinSamples
        /\ History(cfg)[k].positive_rate =
              PositiveRate(SubSeq(fbfile, 1, k * MinSamples))
        /\ History(cfg)[k].web_search_usage =
              Rat(Len(SelectSeq(SubSeq(fbfile, 1, k * MinSamples), WebTriggered)),
                  k * MinSamples)

\* C29 witness: min_samples = 3, three positive entries then three negative
\* ones: the second run's snapshot counts 6 entries and a positive rate of
\* 1/2, the first three entries counted again.
C29_Witness ==
    /\ MinSamples = 3
    /\ Len(History(cfg)) = 2
    /\ History(cfg)[1].total_feedback = 3
    /\ History(cfg)[1].positive_rate = Int2Rat(1)
    /\ History(cfg)[2].total_feedback = 6
    /\ History(cfg)[2].positive_rate = Rat(1, 2)

SubmitFailed == lastOp = "submit_feedback" /\ result.raised # "none"

\* C30 (SpecFail): submit_feedback writes the log before it runs the
\* optimizer: every call, also one in which the optimizer run raises and
\* which therefore returns no feedback_id, has left its entry at the end of
\* the persisted log, where it stays.
C30_EntryPersistedBeforeRun ==
    /\ Len(fbfile) = now
    /\ \A i \in 1..Len(fbfile) : fbfile[i].feedback_id = <<i, i>>
    /\ lastOp = "submit_feedback" =>
          IF result.raised = "none"
          THEN result.ret = [status |-> "success",
                             feedback_id |-> fbfile[Len(fbfile)].feedback_id]
          ELSE /\ result.ret = None
               /\ Len(fbfile) % MinSamples = 0

\* C30 witness: the fourth call failed in its optimizer run (config write
\* error) and returned nothing, yet the log holds an entry for every call,
\* the failed one included.
C30_Witness ==
    /\ SubmitFailed
    /\ result.raised = "IOError"
    /\ result.ret = None
    /\ MinSamples = 2
    /\ Len(fbfile) = 4
    /\ fbfile[4].timestamp = now

====
